---- MODULE Spec2Model ----
(***************************************************************************)
(* sjtu::linked_hashmap<Key, T, Hash, Equal> (src/linked_hashmap.hpp):     *)
(* a chained hash table whose entries are also threaded on a doubly        *)
(* linked list in insertion order.  The model keeps the node heap, two     *)
(* container objects X and Y, and one client-held iterator.  Key = T =     *)
(* int, Hash = the identity hash, Equal = integer equality.                *)
(***************************************************************************)
EXTENDS Integers, Sequences, FiniteSets, TLC

VARIABLES
    nodes,    \* the heap: address -> Node (live flag + the fields of struct Node)
    maps,     \* container -> its data members (buckets, bucket_count, ...)
    exists,   \* container -> whether the object is currently constructed
    it,       \* the iterator the client holds (current, container)
    ret,      \* what the last operation did: its name, container, result, exception
    abs,      \* ghost: container -> the sequence of (key, value) an abstract map holds
    arrays,   \* number of bucket arrays allocated (new Node*[n]()) and not yet delete[]d
    misuse,   \* ghost: "none", "foreign" (erase passed its check on an entry of another
              \*        container), "ub" (freed memory was used: undefined behaviour)
    ops       \* number of operations performed so far

vars == <<nodes, maps, exists, it, ret, abs, arrays, misuse, ops>>

----------------------------------------------------------------------------
(* Bounds of the exploration *)

MaxOps == 3        \* operations per behaviour
MaxNodes == 15     \* heap cells available to `new Node`

(* Program constants *)

INITIAL_CAPACITY == 16
LOAD_FACTOR_NUM == 3       \* LOAD_FACTOR = 0.75 = 3/4
LOAD_FACTOR_DEN == 4
nullptr == 0

Addr == 1..MaxNodes
Ptr == Addr \cup {nullptr}
\* Mapped values the client passes; T() is 0.
Vals == {0, 1}
Maps == {"X", "Y"}

\* Keys the client passes to the operations: 0, 16 and 32 share bucket 0 of a
\* 16-slot table; 0 and 32 still share bucket 0 of a 32-slot table, 16 does not.
Keys == {0, 16, 32}

\* Keys of the entries a container holds at the start of a behaviour, in their
\* insertion order (a prefix of this sequence).
FillKeys == <<0, 16, 1, 2, 3, 4, 5, 6, 7, 8, 9, 10>>
PreFills == {0, 3, 11, 12}

----------------------------------------------------------------------------
(* The heap and the container record *)

\* A heap cell not holding a Node (never allocated, or deleted).
FreeNode ==
    [live |-> FALSE, key |-> 0, val |-> 0, next |-> nullptr, prev |-> nullptr,
     list_next |-> nullptr, list_prev |-> nullptr]

\* Node(const pair<const Key, T>& val): data(val), all four links null.
Node(k, v) ==
    [live |-> TRUE, key |-> k, val |-> v, next |-> nullptr, prev |-> nullptr,
     list_next |-> nullptr, list_prev |-> nullptr]

\* new Node*[n](): n value-initialised (null) slots, indexed from 0.
NewBuckets(n) == [i \in 0..(n - 1) |-> nullptr]

\* linked_hashmap(): bucket_count(INITIAL_CAPACITY), element_count(0), head(nullptr), tail(nullptr)
EmptyMap(cap) ==
    [buckets |-> NewBuckets(cap), bucket_count |-> cap, element_count |-> 0,
     head |-> nullptr, tail |-> nullptr]

\* iterator(Node* node, const linked_hashmap* cont); `dangling` is ghost: the
\* node it referenced has been deleted since the iterator was made.
Iter(node, cont) == [current |-> node, container |-> cont, dangling |-> FALSE]

\* iterator(): current(nullptr), container(nullptr)
DefaultIter == Iter(nullptr, "null")

FreeAddrs(ns) == {a \in Addr : ~ns[a].live}

\* `new Node`: the cell the allocator hands out (the lowest free one).
Alloc(ns) == CHOOSE a \in FreeAddrs(ns) : \A b \in FreeAddrs(ns) : a <= b

hasher(k) == k

key_equal(a, b) == a = b

\* Variant of hash_index that keeps using the initial bucket count.
hash_index_stale(m, k) == hasher(k) % INITIAL_CAPACITY

\* size_t hash_index(const Key& key) const
hash_index(m, k) == hasher(k) % m.bucket_count

----------------------------------------------------------------------------
(* Walks *)

\* Variant of chain_find that looks at the first node of the chain only.
chain_find_first(ns, current, k) ==
    IF current = nullptr THEN nullptr
    ELSE IF key_equal(ns[current].key, k) THEN current
    ELSE nullptr

\* The while (current) loop of find / insert: the first node of the chain
\* starting at `current` whose key equals k, or nullptr.
RECURSIVE chain_find(_, _, _)
chain_find(ns, current, k) ==
    IF current = nullptr THEN nullptr
    ELSE IF key_equal(ns[current].key, k) THEN current
    ELSE chain_find(ns, ns[current].next, k)

\* Nodes of the bucket chain starting at p, in chain order (at most `fuel`).
RECURSIVE ChainSeq(_, _, _)
ChainSeq(ns, p, fuel) ==
    IF p = nullptr \/ fuel = 0 THEN <<>>
    ELSE <<p>> \o ChainSeq(ns, ns[p].next, fuel - 1)

\* Nodes visited by it = begin(); it != end(); ++it  (at most `fuel`).
RECURSIVE ListSeq(_, _, _)
ListSeq(ns, p, fuel) ==
    IF p = nullptr \/ fuel = 0 THEN <<>>
    ELSE <<p>> \o ListSeq(ns, ns[p].list_next, fuel - 1)

\* Nodes visited by it = end-1 ... begin() following list_prev from p.
RECURSIVE RevSeq(_, _, _)
RevSeq(ns, p, fuel) ==
    IF p = nullptr \/ fuel = 0 THEN <<>>
    ELSE <<p>> \o RevSeq(ns, ns[p].list_prev, fuel - 1)

Range(s) == {s[i] : i \in 1..Len(s)}

LiveOrNull(ns, p) == IF p = nullptr THEN TRUE ELSE ns[p].live

\* A container together with the heap its nodes live in: [n |-> heap, m |-> container].
\* The member functions below take and yield such a pair (`this` and memory).
World(ns, m) == [n |-> ns, m |-> m]

\* The nodes a member function of this container can reach: those on its
\* order list, those on its chains, and its tail.
Reached(w) ==
    (Range(ListSeq(w.n, w.m.head, MaxNodes + 1)) \cup {w.m.tail}
       \cup UNION {Range(ChainSeq(w.n, w.m.buckets[i], MaxNodes + 1)) : i \in DOMAIN w.m.buckets})
    \ {nullptr}

\* Every pointer the member functions of this container can follow leads to
\* a live node, and every loop over its list or over one of its chains ends.
MemSafe(w) ==
    /\ {p \in Reached(w) :
           ~(/\ w.n[p].live
             /\ LiveOrNull(w.n, w.n[p].prev) /\ LiveOrNull(w.n, w.n[p].next)
             /\ LiveOrNull(w.n, w.n[p].list_prev) /\ LiveOrNull(w.n, w.n[p].list_next))} = {}
    /\ Len(ListSeq(w.n, w.m.head, MaxNodes + 1)) <= MaxNodes
    /\ \A i \in DOMAIN w.m.buckets :
          Len(ChainSeq(w.n, w.m.buckets[i], MaxNodes + 1)) <= MaxNodes

----------------------------------------------------------------------------
(* rehash / ensure_capacity *)

\* Variant of rehash_node that resets list_prev where the code resets prev.
rehash_node_list_prev(r, current, new_index) ==
    [n |-> IF r.b[new_index] # nullptr
           THEN [r.n EXCEPT ![current] = [@ EXCEPT !.next = r.b[new_index], !.list_prev = nullptr],
                            ![r.b[new_index]].prev = current]
           ELSE [r.n EXCEPT ![current] = [@ EXCEPT !.next = r.b[new_index], !.list_prev = nullptr]],
     b |-> [r.b EXCEPT ![new_index] = current]]

\* One round of the while (current) loop of rehash: relink `current` at the
\* head of its new bucket.  r = [n |-> heap, b |-> new_buckets].
rehash_node(r, current, new_index) ==
    [n |-> IF r.b[new_index] # nullptr
           THEN [r.n EXCEPT ![current] = [@ EXCEPT !.next = r.b[new_index], !.prev = nullptr],
                            ![r.b[new_index]].prev = current]
           ELSE [r.n EXCEPT ![current] = [@ EXCEPT !.next = r.b[new_index], !.prev = nullptr]],
     b |-> [r.b EXCEPT ![new_index] = current]]

\* The while (current) loop of rehash over one old chain.
RECURSIVE rehash_chain(_, _, _)
rehash_chain(r, current, new_capacity) ==
    IF current = nullptr THEN r
    ELSE rehash_chain(rehash_node(r, current, hasher(r.n[current].key) % new_capacity),
                      r.n[current].next, new_capacity)

\* for (size_t i = 0; i < bucket_count; ++i) of rehash, from slot i on.
RECURSIVE rehash_from(_, _, _, _)
rehash_from(r, m, i, new_capacity) ==
    IF i >= m.bucket_count THEN r
    ELSE rehash_from(rehash_chain(r, m.buckets[i], new_capacity), m, i + 1, new_capacity)

\* buckets = new_buckets; bucket_count = new_capacity;
rehash_done(r, m, new_capacity) ==
    World(r.n, [m EXCEPT !.buckets = r.b, !.bucket_count = new_capacity])

\* void rehash(size_t new_capacity)
rehash(w, new_capacity) ==
    rehash_done(rehash_from([n |-> w.n, b |-> NewBuckets(new_capacity)], w.m, 0, new_capacity),
                w.m, new_capacity)

\* Variant of NeedsRehash with a strict comparison.
NeedsRehash_strict(m) ==
    \/ m.element_count < 0
    \/ m.element_count * LOAD_FACTOR_DEN > m.bucket_count * LOAD_FACTOR_NUM

\* element_count >= bucket_count * LOAD_FACTOR, with LOAD_FACTOR = 3/4
\* (exact in double arithmetic for these magnitudes).  A size_t is kept as
\* its representative nearest 0: n < 0 stands for 2^64 + n, which exceeds
\* every bucket_count.
NeedsRehash(m) ==
    \/ m.element_count < 0
    \/ m.element_count * LOAD_FACTOR_DEN >= m.bucket_count * LOAD_FACTOR_NUM

\* Variant of ensure_capacity that grows the table fourfold.
ensure_capacity_fourfold(w) ==
    IF NeedsRehash(w.m) THEN rehash(w, w.m.bucket_count * 4) ELSE World(w.n, w.m)

\* Variant of ensure_capacity that counts the entry about to be inserted.
ensure_capacity_eager(w) ==
    IF NeedsRehash([w.m EXCEPT !.element_count = @ + 1])
    THEN rehash(w, w.m.bucket_count * 2)
    ELSE World(w.n, w.m)

\* void ensure_capacity()
ensure_capacity(w) ==
    IF NeedsRehash(w.m) THEN rehash(w, w.m.bucket_count * 2) ELSE World(w.n, w.m)

----------------------------------------------------------------------------
(* insert *)

\* "Insert into hash bucket": link new_node at the head of chain `index`.
bucket_link(w, index, new_node) ==
    World(IF w.m.buckets[index] # nullptr
          THEN [w.n EXCEPT ![new_node].next = w.m.buckets[index],
                           ![w.m.buckets[index]].prev = new_node]
          ELSE [w.n EXCEPT ![new_node].next = w.m.buckets[index]],
          [w.m EXCEPT !.buckets[index] = new_node])

\* Variant of list_append that links new_node in front of head.
list_prepend(w, new_node) ==
    IF w.m.head = nullptr
    THEN World(w.n, [w.m EXCEPT !.head = new_node, !.tail = new_node])
    ELSE World([w.n EXCEPT ![w.m.head].list_prev = new_node,
                           ![new_node].list_next = w.m.head],
               [w.m EXCEPT !.head = new_node])

\* "Insert into linked list": append new_node at the tail of the order list.
list_append(w, new_node) ==
    IF w.m.head = nullptr
    THEN World(w.n, [w.m EXCEPT !.head = new_node, !.tail = new_node])
    ELSE World([w.n EXCEPT ![w.m.tail].list_next = new_node,
                           ![new_node].list_prev = w.m.tail],
               [w.m EXCEPT !.tail = new_node])

\* Variant of inserted that does not count the new entry.
inserted_uncounted(w, new_node) ==
    [n |-> w.n, m |-> w.m, first |-> new_node, second |-> TRUE]

\* ++element_count; return pair<iterator, bool>(iterator(new_node, this), true);
inserted(w, new_node) ==
    [n |-> w.n, m |-> [w.m EXCEPT !.element_count = @ + 1],
     first |-> new_node, second |-> TRUE]

\* "Create new node" and link it: the part of insert after the chain walk
\* has found no equal key.
insert_new(w, index, new_node, k, v) ==
    inserted(list_append(bucket_link(World([w.n EXCEPT ![new_node] = Node(k, v)], w.m),
                                     index, new_node),
                         new_node),
             new_node)

\* Variant of insert_walk that overwrites the value of an equal key.
insert_overwrite(w, k, v) ==
    LET current == chain_find(w.n, w.m.buckets[hash_index(w.m, k)], k)
    IN IF current # nullptr
       THEN [n |-> [w.n EXCEPT ![current].val = v], m |-> w.m,
             first |-> current, second |-> FALSE]
       ELSE insert_new(w, hash_index(w.m, k), Alloc(w.n), k, v)

\* The part of insert after ensure_capacity(): walk chain hash_index(key);
\* an equal key ends the call with (iterator to it, false).
insert_walk(w, k, v) ==
    LET current == chain_find(w.n, w.m.buckets[hash_index(w.m, k)], k)
    IN IF current # nullptr
       THEN [n |-> w.n, m |-> w.m, first |-> current, second |-> FALSE]
       ELSE insert_new(w, hash_index(w.m, k), Alloc(w.n), k, v)

\* Variant of insert that looks for the key before it ensures capacity.
insert_walk_first(w, k, v) ==
    IF chain_find(w.n, w.m.buckets[hash_index(w.m, k)], k) # nullptr
    THEN insert_walk(w, k, v)
    ELSE insert_walk(ensure_capacity(w), k, v)

\* pair<iterator, bool> insert(const value_type &value): the heap, the
\* container, the node of the returned iterator and the returned bool.
insert(w, k, v) == insert_walk(ensure_capacity(w), k, v)

\* iterator find(const Key &key): the node of the returned iterator
\* (nullptr for end()).
find(w, k) == chain_find(w.n, w.m.buckets[hash_index(w.m, k)], k)

\* Whether insert(k, .) reaches `new Node`.
InsertAllocates(w, k) == find(ensure_capacity(w), k) = nullptr

----------------------------------------------------------------------------
(* count / at *)

\* size_t count(const Key &key) const
count(w, k) == IF find(w, k) # nullptr THEN 1 ELSE 0

\* Variant of at that answers a missing key with a default value.
at_default(w, k) ==
    IF find(w, k) = nullptr
    THEN [exc |-> "none", val |-> 0]
    ELSE [exc |-> "none", val |-> w.n[find(w, k)].val]

\* T & at(const Key &key): the exception thrown, or the value referenced.
at(w, k) ==
    IF find(w, k) = nullptr
    THEN [exc |-> "index_out_of_bound", val |-> 0]
    ELSE [exc |-> "none", val |-> w.n[find(w, k)].val]

----------------------------------------------------------------------------
(* erase / clear *)

\* Variant of erase_rejects that tests pos == end() only.
erase_rejects_end(c, pos) == pos.current = nullptr

\* The test at the top of erase: pos == end() || pos.container != this.
\* operator== compares `current` only, so pos == end() is current == nullptr.
erase_rejects(c, pos) == IF pos.current = nullptr THEN TRUE ELSE pos.container # c

\* Variant of bucket_unlink_prev that leaves the bucket head alone.
bucket_unlink_prev_only(w, node) ==
    IF w.n[node].prev # nullptr
    THEN World([w.n EXCEPT ![w.n[node].prev].next = w.n[node].next], w.m)
    ELSE World(w.n, w.m)

\* if (node->prev) node->prev->next = node->next; else buckets[index] = node->next;
bucket_unlink_prev(w, node) ==
    IF w.n[node].prev # nullptr
    THEN World([w.n EXCEPT ![w.n[node].prev].next = w.n[node].next], w.m)
    ELSE World(w.n, [w.m EXCEPT !.buckets[hash_index(w.m, w.n[node].key)] = w.n[node].next])

\* if (node->next) node->next->prev = node->prev;
bucket_unlink_next(w, node) ==
    IF w.n[node].next # nullptr
    THEN World([w.n EXCEPT ![w.n[node].next].prev = w.n[node].prev], w.m)
    ELSE World(w.n, w.m)

\* "Remove from hash bucket"
bucket_unlink(w, node) == bucket_unlink_next(bucket_unlink_prev(w, node), node)

\* if (node->list_prev) node->list_prev->list_next = node->list_next; else head = node->list_next;
list_unlink_prev(w, node) ==
    IF w.n[node].list_prev # nullptr
    THEN World([w.n EXCEPT ![w.n[node].list_prev].list_next = w.n[node].list_next], w.m)
    ELSE World(w.n, [w.m EXCEPT !.head = w.n[node].list_next])

\* if (node->list_next) node->list_next->list_prev = node->list_prev; else tail = node->list_prev;
list_unlink_next(w, node) ==
    IF w.n[node].list_next # nullptr
    THEN World([w.n EXCEPT ![w.n[node].list_next].list_prev = w.n[node].list_prev], w.m)
    ELSE World(w.n, [w.m EXCEPT !.tail = w.n[node].list_prev])

\* "Remove from linked list"
list_unlink(w, node) == list_unlink_next(list_unlink_prev(w, node), node)

\* delete node; --element_count;  (0 - 1 wraps to 2^64 - 1, kept as -1)
erase_node(w, node) ==
    World([w.n EXCEPT ![node] = FreeNode], [w.m EXCEPT !.element_count = @ - 1])

\* void erase(iterator pos), past its check, with node = pos.current.
erase(w, node) == erase_node(list_unlink(bucket_unlink(w, node), node), node)

\* The first loop of clear(): delete every node on the list from `current` on.
RECURSIVE delete_list(_, _)
delete_list(ns, current) ==
    IF current = nullptr THEN ns
    ELSE delete_list([ns EXCEPT ![current] = FreeNode], ns[current].list_next)

\* void clear()
clear(w) ==
    World(delete_list(w.n, w.m.head),
          [w.m EXCEPT !.head = nullptr, !.tail = nullptr, !.element_count = 0,
                      !.buckets = [i \in DOMAIN w.m.buckets |-> nullptr]])

----------------------------------------------------------------------------
(* copy construction, assignment, swap, destruction *)

\* for (const_iterator it = other.cbegin(); it != other.cend(); ++it) insert(*it);
\* copy_loop is the loop test and body, copy_next the ++it after the insert.
RECURSIVE copy_loop(_, _)
RECURSIVE copy_next(_, _)
copy_loop(w, current) ==
    IF current = nullptr THEN World(w.n, w.m)
    ELSE copy_next(insert(w, w.n[current].key, w.n[current].val), current)

copy_next(w, current) == copy_loop(w, w.n[current].list_next)

\* Variant of copy_construct that copies the members of `other`.
copy_members(ns, other) == World(ns, other)

\* linked_hashmap(const linked_hashmap &other): the heap and the new object.
copy_construct(ns, other) ==
    copy_loop(World(ns, EmptyMap(other.bucket_count)), other.head)

\* What a destroyed (or not yet constructed) object is recorded as.
NoMap == EmptyMap(0)

\* ~linked_hashmap(): clear(); delete[] buckets;
destroy(w) == World(clear(w).n, NoMap)

\* void swap(linked_hashmap &other): the two containers after the exchange.
swap(m, other) == [this |-> other, other |-> m]

\* swap(temp); return *this;  and then temp's destructor, t being temp.
assign_swap(t, m) ==
    World(destroy(World(t.n, swap(m, t.m).other)).n, swap(m, t.m).this)

\* linked_hashmap & operator=(const linked_hashmap &other), this != &other.
assign(w, other) == assign_swap(copy_construct(w.n, other), w.m)

----------------------------------------------------------------------------
(* The same code when operator new can throw std::bad_alloc.  `fuel` is the *)
(* number of allocations that still succeed; the next one after that throws. *)
(* An evaluation is [n |-> heap, m |-> container, thrown, fuel].              *)

Returned(w, fuel) == [n |-> w.n, m |-> w.m, thrown |-> FALSE, fuel |-> fuel]

Threw(w) == [n |-> w.n, m |-> w.m, thrown |-> TRUE, fuel |-> 0]

\* ensure_capacity(): rehash allocates new_buckets first (line 64).
ensure_capacity_alloc(w, fuel) ==
    IF NeedsRehash(w.m)
    THEN IF fuel = 0 THEN Threw(w)
         ELSE Returned(rehash(w, w.m.bucket_count * 2), fuel - 1)
    ELSE Returned(w, fuel)

\* The rest of insert: `new Node(value)` (line 448) comes after the chain
\* walk and before any link is written.
insert_walk_alloc(e, k, v) ==
    IF e.thrown THEN e
    ELSE IF find(World(e.n, e.m), k) # nullptr THEN e
    ELSE IF e.fuel = 0 THEN Threw(e)
    ELSE Returned(insert_new(World(e.n, e.m), hash_index(e.m, k), Alloc(e.n), k, v),
                  e.fuel - 1)

insert_alloc(w, k, v, fuel) == insert_walk_alloc(ensure_capacity_alloc(w, fuel), k, v)

\* The for loop of the copy constructor, left by the first insert that throws.
RECURSIVE copy_loop_alloc(_, _)
copy_loop_alloc(e, current) ==
    IF e.thrown \/ current = nullptr THEN e
    ELSE copy_loop_alloc(insert_alloc(World(e.n, e.m), e.n[current].key,
                                      e.n[current].val, e.fuel),
                         e.n[current].list_next)

\* What a constructor call leaves: the heap, the object (NoMap when the
\* constructor threw), and how many bucket arrays it still holds.
Built(ns, m, thrown, held) == [n |-> ns, m |-> m, thrown |-> thrown, arrays |-> held]

\* Variant of copy_catch without the clear().
copy_catch_leak(e) == Built(e.n, NoMap, TRUE, 0)

\* catch (...) { clear(); delete[] buckets; throw; }
copy_catch(e) == Built(clear(World(e.n, e.m)).n, NoMap, TRUE, 0)

\* try { for ... insert(*it); } catch (...) { ... }
copy_try(e) == IF e.thrown THEN copy_catch(e) ELSE Built(e.n, e.m, FALSE, 1)

\* linked_hashmap(const linked_hashmap &other) with `fuel` allocations left:
\* `buckets = new Node*[bucket_count]()` (line 287) is the first of them and
\* lies outside the try block.
copy_construct_alloc(ns, other, fuel) ==
    IF fuel = 0 THEN Built(ns, NoMap, TRUE, 0)
    ELSE copy_try(copy_loop_alloc(Returned(World(ns, EmptyMap(other.bucket_count)), fuel - 1),
                                  other.head))

\* linked_hashmap temp(other); swap(temp); return *this;  with t the
\* construction of temp: a throw leaves before the swap.
assign_temp(t, m) ==
    IF t.thrown THEN Built(t.n, m, TRUE, t.arrays)
    ELSE Built(assign_swap(World(t.n, t.m), m).n, assign_swap(World(t.n, t.m), m).m,
               FALSE, t.arrays - 1)

\* operator=(other), this != &other, with `fuel` allocations left.
assign_alloc(w, other, fuel) == assign_temp(copy_construct_alloc(w.n, other, fuel), w.m)

----------------------------------------------------------------------------
(* What a client observes *)

\* The (key, value) pairs met by  for (it = begin(); it != end(); ++it).
Pairs(ns, s) == [i \in 1..Len(s) |-> <<ns[s[i]].key, ns[s[i]].val>>]

Traverse(w) == Pairs(w.n, ListSeq(w.n, w.m.head, MaxNodes + 1))

\* The nodes reachable from the bucket array.
BucketNodes(w) ==
    UNION {Range(ChainSeq(w.n, w.m.buckets[i], MaxNodes + 1)) : i \in DOMAIN w.m.buckets}

\* The nodes reachable from head along list_next.
ListNodes(w) == Range(ListSeq(w.n, w.m.head, MaxNodes + 1))

----------------------------------------------------------------------------
(* Ghost: the abstract insertion-ordered map *)

AbsKeys(a) == {a[i][1] : i \in 1..Len(a)}

AbsHas(a, k) == k \in AbsKeys(a)

AbsPos(a, k) == CHOOSE i \in 1..Len(a) : a[i][1] = k

AbsGet(a, k) == a[AbsPos(a, k)][2]

AbsInsert(a, k, v) == IF AbsHas(a, k) THEN a ELSE Append(a, <<k, v>>)

AbsErase(a, k) ==
    LET i == AbsPos(a, k)
    IN [j \in 1..(Len(a) - 1) |-> IF j < i THEN a[j] ELSE a[j + 1]]

AbsSet(a, k, v) == [a EXCEPT ![AbsPos(a, k)] = <<k, v>>]

----------------------------------------------------------------------------
(* Initial states *)

FillVal(i) == i % 2

\* The container after insert(FillKeys[i], .), ..., insert(FillKeys[n], .).
RECURSIVE Fill(_, _, _)
Fill(w, i, n) ==
    IF i > n THEN World(w.n, w.m)
    ELSE Fill(insert(w, FillKeys[i], FillVal(i)), i + 1, n)

RECURSIVE AbsFill(_, _, _)
AbsFill(a, i, n) ==
    IF i > n THEN a ELSE AbsFill(AbsInsert(a, FillKeys[i], FillVal(i)), i + 1, n)

Ret(op, c, k, exc, flag, val) ==
    [op |-> op, c |-> c, key |-> k, exc |-> exc, flag |-> flag, val |-> val]

\* The iterators the client may hold at the start, after n insertions: a
\* default-constructed one, and for n in HeldFills also X.find(FillKeys[2]).
HeldFills == {3}
Held(w, n) ==
    {DefaultIter} \cup (IF n \in HeldFills THEN {Iter(find(w, FillKeys[2]), "X")} ELSE {})

\* X is default-constructed and has received n insertions; Y is not yet
\* constructed; the client holds iterator i.
InitWith(w, n, i) ==
    /\ nodes = w.n
    /\ maps = [c \in Maps |-> IF c = "X" THEN w.m ELSE NoMap]
    /\ exists = [c \in Maps |-> c = "X"]
    /\ it = i
    /\ ret = Ret("init", "X", 0, "none", FALSE, 0)
    /\ abs = [c \in Maps |-> IF c = "X" THEN AbsFill(<<>>, 1, n) ELSE <<>>]
    /\ arrays = 1
    /\ misuse = "none"
    /\ ops = 0

InitFilled(w, n) == \E i \in Held(w, n) : InitWith(w, n, i)

Init ==
    \E n \in PreFills :
        InitFilled(Fill(World([a \in Addr |-> FreeNode], EmptyMap(INITIAL_CAPACITY)), 1, n), n)

----------------------------------------------------------------------------
(* Actions: one per public operation *)

Running == misuse # "ub" /\ ops < MaxOps

\* Container c with the heap.
W(c) == World(nodes, maps[c])

\* Container c is constructed and its member functions touch only live memory.
Ready(c) == Running /\ exists[c] /\ MemSafe(W(c))

\* The client's iterator after the heap became ns: it dangles once its node
\* has been deleted.
Mark(i, ns) ==
    IF i.current # nullptr /\ ~ns[i.current].live
    THEN [i EXCEPT !.dangling = TRUE]
    ELSE i

Done(op, c, k, exc, flag, val) ==
    /\ ret' = Ret(op, c, k, exc, flag, val)
    /\ ops' = ops + 1

\* The member function left container c and the heap as w.
Store(c, w) ==
    /\ nodes' = w.n
    /\ maps' = [maps EXCEPT ![c] = w.m]

FreeCells == Cardinality(FreeAddrs(nodes))

InsertReturns(c, k, v, r) ==
    /\ Store(c, r)
    /\ it' = Iter(r.first, c)
    /\ Done("insert", c, k, "none", r.second, v)

\* it = c.insert(value_type(k, v)).first
Insert(c, k, v) ==
    /\ Ready(c)
    /\ InsertAllocates(W(c), k) => FreeCells > 0
    /\ InsertReturns(c, k, v, insert(W(c), k, v))
    /\ abs' = [abs EXCEPT ![c] = AbsInsert(@, k, v)]
    /\ UNCHANGED <<exists, misuse>>
    /\ UNCHANGED arrays

\* pair<iterator, bool> result = insert(value_type(key, T())); return result.first->second;
IndexInserts(c, k, r) ==
    /\ Store(c, r)
    /\ Done("index", c, k, "none", r.second, r.n[r.first].val)

\* T & operator[](const Key &key): c[k]
Index(c, k) ==
    /\ Ready(c)
    /\ IF find(W(c), k) # nullptr
       THEN /\ Done("index", c, k, "none", FALSE, nodes[find(W(c), k)].val)
            /\ UNCHANGED <<nodes, maps>>
       ELSE /\ InsertAllocates(W(c), k) => FreeCells > 0
            /\ IndexInserts(c, k, insert(W(c), k, 0))
    /\ abs' = [abs EXCEPT ![c] = AbsInsert(@, k, 0)]
    /\ UNCHANGED <<exists, it, misuse>>
    /\ UNCHANGED arrays

AtReturns(c, k, op, r) == Done(op, c, k, r.exc, r.exc = "none", r.val)

\* c.at(k), and c[k] on a const container (which returns at(key)).
At(c, k, op) ==
    /\ Ready(c)
    /\ AtReturns(c, k, op, at(W(c), k))
    /\ UNCHANGED <<nodes, maps, exists, it, abs, misuse>>
    /\ UNCHANGED arrays

FindReturns(c, k, node) ==
    /\ it' = Iter(node, c)
    /\ Done("find", c, k, "none", node # nullptr, 0)

\* it = c.find(k)
Find(c, k) ==
    /\ Ready(c)
    /\ FindReturns(c, k, find(W(c), k))
    /\ UNCHANGED <<nodes, maps, exists, abs, misuse>>
    /\ UNCHANGED arrays

\* c.count(k)
Count(c, k) ==
    /\ Ready(c)
    /\ Done("count", c, k, "none", FALSE, count(W(c), k))
    /\ UNCHANGED <<nodes, maps, exists, it, abs, misuse>>
    /\ UNCHANGED arrays

\* c.erase(it), rejected: throw invalid_iterator()
EraseThrows(c) ==
    /\ Ready(c)
    /\ erase_rejects(c, it)
    /\ Done("erase", c, 0, "invalid_iterator", FALSE, 0)
    /\ UNCHANGED <<nodes, maps, exists, it, abs, misuse>>
    /\ UNCHANGED arrays

EraseReturns(c, node, mine, w) ==
    /\ Store(c, w)
    /\ it' = Mark(it, w.n)
    /\ Done("erase", c, nodes[node].key, "none", TRUE, 0)
    /\ abs' = IF mine THEN [abs EXCEPT ![c] = AbsErase(@, nodes[node].key)] ELSE abs
    /\ misuse' = IF mine THEN misuse ELSE "foreign"

\* c.erase(it), accepted, `it` referencing a live node.  When that node is
\* not an entry of c the erase still runs (ghost: misuse = "foreign").
Erase(c) ==
    /\ Ready(c)
    /\ ~erase_rejects(c, it)
    /\ ~it.dangling
    /\ nodes[it.current].live
    /\ \A o \in Maps : exists[o] => MemSafe(W(o))
    /\ EraseReturns(c, it.current, it.current \in ListNodes(W(c)), erase(W(c), it.current))
    /\ UNCHANGED exists
    /\ UNCHANGED arrays

Freed(c, w) ==
    /\ Store(c, w)
    /\ it' = Mark(it, w.n)

\* c.clear()
Clear(c) ==
    /\ Ready(c)
    /\ Freed(c, clear(W(c)))
    /\ Done("clear", c, 0, "none", FALSE, 0)
    /\ abs' = [abs EXCEPT ![c] = <<>>]
    /\ UNCHANGED <<exists, misuse>>
    /\ UNCHANGED arrays

\* it = c.begin()
Begin(c) ==
    /\ Ready(c)
    /\ it' = Iter(maps[c].head, c)
    /\ Done("begin", c, 0, "none", FALSE, 0)
    /\ UNCHANGED <<nodes, maps, exists, abs, misuse>>
    /\ UNCHANGED arrays

\* it = c.end()
End(c) ==
    /\ Ready(c)
    /\ it' = Iter(nullptr, c)
    /\ Done("end", c, 0, "none", FALSE, 0)
    /\ UNCHANGED <<nodes, maps, exists, abs, misuse>>
    /\ UNCHANGED arrays

\* iterator & operator++(): if (current) current = current->list_next;
advance(ns, i) ==
    IF i.current # nullptr THEN [i EXCEPT !.current = ns[i.current].list_next] ELSE i

\* iterator & operator--(): if (current) current = current->list_prev;
retreat(ns, i) ==
    IF i.current # nullptr THEN [i EXCEPT !.current = ns[i.current].list_prev] ELSE i

\* ++it
Inc ==
    /\ Running
    /\ ~it.dangling
    /\ it' = advance(nodes, it)
    /\ Done("inc", it.container, 0, "none", FALSE, 0)
    /\ UNCHANGED <<nodes, maps, exists, abs, misuse>>
    /\ UNCHANGED arrays

\* --it
Dec ==
    /\ Running
    /\ ~it.dangling
    /\ it' = retreat(nodes, it)
    /\ Done("dec", it.container, 0, "none", FALSE, 0)
    /\ UNCHANGED <<nodes, maps, exists, abs, misuse>>
    /\ UNCHANGED arrays

\* The constructed containers whose order list holds node p.
Owners(p) == {c \in Maps : exists[c] /\ p \in ListNodes(W(c))}

SetValueIn(c, v) ==
    /\ nodes' = [nodes EXCEPT ![it.current].val = v]
    /\ abs' = [abs EXCEPT ![c] = AbsSet(@, nodes[it.current].key, v)]
    /\ Done("set", c, nodes[it.current].key, "none", FALSE, v)

\* it->second = v
SetValue(v) ==
    /\ Running
    /\ it.current # nullptr
    /\ ~it.dangling
    /\ \E c \in Owners(it.current) : SetValueIn(c, v)
    /\ UNCHANGED <<maps, exists, it, misuse>>
    /\ UNCHANGED arrays

\* linked_hashmap c;
Construct(c) ==
    /\ Running
    /\ ~exists[c]
    /\ maps' = [maps EXCEPT ![c] = EmptyMap(INITIAL_CAPACITY)]
    /\ exists' = [exists EXCEPT ![c] = TRUE]
    /\ abs' = [abs EXCEPT ![c] = <<>>]
    /\ Done("construct", c, 0, "none", FALSE, 0)
    /\ UNCHANGED <<nodes, it, misuse>>
    /\ arrays' = arrays + 1

\* linked_hashmap c(o);
CopyConstruct(c, o) ==
    /\ Running
    /\ ~exists[c]
    /\ Ready(o)
    /\ FreeCells >= Cardinality(ListNodes(W(o)))
    /\ Store(c, copy_construct(nodes, maps[o]))
    /\ exists' = [exists EXCEPT ![c] = TRUE]
    /\ abs' = [abs EXCEPT ![c] = abs[o]]
    /\ Done("copy", c, 0, "none", FALSE, 0)
    /\ UNCHANGED <<it, misuse>>
    /\ arrays' = arrays + 1

\* c's lifetime ends: ~linked_hashmap()
Destruct(c) ==
    /\ Ready(c)
    /\ Freed(c, destroy(W(c)))
    /\ exists' = [exists EXCEPT ![c] = FALSE]
    /\ abs' = [abs EXCEPT ![c] = <<>>]
    /\ Done("destruct", c, 0, "none", FALSE, 0)
    /\ UNCHANGED misuse
    /\ arrays' = arrays - 1

\* c = o
Assign(c, o) ==
    /\ Ready(c)
    /\ Ready(o)
    /\ IF c = o
       THEN UNCHANGED <<nodes, maps, it>>
       ELSE /\ FreeCells >= Cardinality(ListNodes(W(o)))
            /\ Freed(c, assign(W(c), maps[o]))
    /\ abs' = [abs EXCEPT ![c] = abs[o]]
    /\ Done("assign", c, 0, "none", c # o, 0)
    /\ UNCHANGED <<exists, misuse>>
    /\ UNCHANGED arrays

\* c.swap(o)
Swap(c, o) ==
    /\ Ready(c)
    /\ Ready(o)
    /\ maps' = [maps EXCEPT ![o] = swap(maps[c], maps[o]).other,
                            ![c] = swap(maps[c], maps[o]).this]
    /\ abs' = [abs EXCEPT ![o] = abs[c], ![c] = abs[o]]
    /\ Done("swap", c, 0, "none", c # o, 0)
    /\ UNCHANGED <<nodes, exists, it, misuse>>
    /\ UNCHANGED arrays

\* The client uses a dangling iterator or a container whose links lead into
\* freed memory: undefined behaviour, after which nothing is modelled.
UndefinedBehaviour ==
    /\ Running
    /\ IF it.dangling THEN TRUE
       ELSE \E c \in Maps : exists[c] /\ ~MemSafe(W(c))
    /\ misuse' = "ub"
    /\ Done("ub", "null", 0, "none", FALSE, 0)
    /\ UNCHANGED <<nodes, maps, exists, it, abs>>
    /\ UNCHANGED arrays

Next ==
    \/ \E c \in Maps, k \in Keys, v \in Vals : Insert(c, k, v)
    \/ \E c \in Maps, k \in Keys : Index(c, k)
    \/ \E c \in Maps, k \in Keys, op \in {"at", "const_index"} : At(c, k, op)
    \/ \E c \in Maps, k \in Keys : Find(c, k)
    \/ \E c \in Maps, k \in Keys : Count(c, k)
    \/ \E c \in Maps : EraseThrows(c)
    \/ \E c \in Maps : Erase(c)
    \/ \E c \in Maps : Clear(c)
    \/ \E c \in Maps : Begin(c)
    \/ \E c \in Maps : End(c)
    \/ Inc
    \/ Dec
    \/ \E v \in Vals : SetValue(v)
    \/ \E c \in Maps : Construct(c)
    \/ \E c, o \in Maps : CopyConstruct(c, o)
    \/ \E c \in Maps : Destruct(c)
    \/ \E c, o \in Maps : Assign(c, o)
    \/ \E c, o \in Maps : Swap(c, o)
    \/ UndefinedBehaviour

Spec == Init /\ [][Next]_vars

----------------------------------------------------------------------------
(* Allocation failure during assignment *)

AssignThrew(c, fuel, r) ==
    /\ r.thrown
    /\ nodes' = r.n
    /\ maps' = [maps EXCEPT ![c] = r.m]
    /\ arrays' = arrays + r.arrays
    /\ it' = Mark(it, r.n)
    /\ Done("assign", c, 0, "bad_alloc", fuel >= 2, 0)

\* c = o, c # o, where the allocation number fuel + 1 of the call throws
\* std::bad_alloc (ret.flag: at least one entry of temp had been built).
AssignThrows(c, o) ==
    /\ Ready(c)
    /\ Ready(o)
    /\ c # o
    /\ \E fuel \in 0..Cardinality(ListNodes(W(o))) :
          /\ fuel - 1 <= FreeCells
          /\ AssignThrew(c, fuel, assign_alloc(W(c), maps[o], fuel))
    /\ UNCHANGED <<exists, abs, misuse>>

NextAlloc ==
    \/ Next
    \/ \E c, o \in Maps : AssignThrows(c, o)

SpecAlloc == Init /\ [][NextAlloc]_vars

----------------------------------------------------------------------------
(* Vocabulary of the properties *)

Live == {c \in Maps : exists[c]}

\* No erase has been run on an entry of another container and no freed
\* memory has been used: every erase so far had a valid iterator.
Valid == misuse = "none"

KeysOf(s) == [i \in 1..Len(s) |-> s[i][1]]

\* The step just taken was operation op on container c.
Step(op, c) == ops' = ops + 1 /\ ret'.op = op /\ ret'.c = c

Other(c) == IF c = "X" THEN "Y" ELSE "X"

----------------------------------------------------------------------------
(* C1 *)

\* C1: in every state reached with valid iterators, for every container the
\* set of entries reachable from head along list_next equals the set of
\* entries reachable from the bucket array along next, and that set has
\* size() elements.
C1_ListIsBuckets ==
    Valid =>
        \A c \in Live :
            /\ ListNodes(W(c)) = BucketNodes(W(c))
            /\ Cardinality(ListNodes(W(c))) = maps[c].element_count
            /\ Len(ListSeq(nodes, maps[c].head, MaxNodes + 1)) = maps[c].element_count

\* An erase has just removed an entry of a rehashed, still populated container.
C1_Witness ==
    /\ Valid
    /\ ret.op = "erase" /\ ret.exc = "none"
    /\ maps[ret.c].bucket_count = 2 * INITIAL_CAPACITY
    /\ maps[ret.c].element_count = 12

----------------------------------------------------------------------------
(* C2 *)

\* C2: in every state reached with valid iterators, traversing a container
\* from begin() to end() meets exactly the keys of the abstract map, in the
\* order of the successful insertions that created the live entries (a
\* successful insert appends, an erase removes and keeps the order of the rest).
C2_InsertionOrder ==
    Valid => \A c \in Live : KeysOf(Traverse(W(c))) = KeysOf(abs[c])

\* Keys 0, 16, 1 were inserted in that order, 16 was erased and inserted
\* again: the traversal is 0, 1, 16.
C2_Witness ==
    /\ Valid
    /\ ret.op = "insert" /\ ret.flag /\ ret.c = "X" /\ ret.key = 16
    /\ KeysOf(Traverse(W("X"))) = <<0, 1, 16>>

----------------------------------------------------------------------------
(* C3 *)

\* C3: an insert(key, value) on a container that already holds the key
\* returns (iterator to the existing entry, false) and leaves size(), the
\* traversal (keys and values, in order) of that container unchanged.
C3_DuplicateInsert ==
    [][\A c \in Maps, k \in Keys :
          (Valid /\ Step("insert", c) /\ ret'.key = k
                 /\ \E i \in 1..Len(Traverse(W(c))) : Traverse(W(c))[i][1] = k)
          => /\ ret'.flag = FALSE
             /\ it'.container = c
             /\ it'.current \in ListNodes(W(c))
             /\ nodes[it'.current].key = k
             /\ maps'[c].element_count = maps[c].element_count
             /\ Traverse(World(nodes', maps'[c])) = Traverse(W(c))]_vars

\* An insert has just been refused for a key whose stored value differs
\* from the value offered.
C3_Witness ==
    /\ Valid
    /\ ret.op = "insert" /\ ~ret.flag
    /\ it.current # nullptr
    /\ nodes[it.current].val # ret.val

----------------------------------------------------------------------------
(* C4 *)

\* C4: in every state reached with valid iterators no container holds two
\* entries with equal keys, on its list or in its chains, so count(key) is 0 or 1.
C4_UniqueKeys ==
    Valid =>
        \A c \in Live :
            /\ \A p, q \in ListNodes(W(c)) \cup BucketNodes(W(c)) :
                  key_equal(nodes[p].key, nodes[q].key) => p = q
            /\ \A k \in Keys :
                  count(W(c), k) = Cardinality({p \in ListNodes(W(c)) : key_equal(nodes[p].key, k)})

\* A duplicate insert has just been refused by a container that was rehashed.
C4_Witness ==
    /\ Valid
    /\ ret.op = "insert" /\ ~ret.flag
    /\ maps[ret.c].bucket_count = 2 * INITIAL_CAPACITY
    /\ count(W(ret.c), ret.key) = 1

----------------------------------------------------------------------------
(* C5 *)

AllKeys == Keys \cup Range(FillKeys)

\* find(k) on container m answers as the abstract map a does.
FindAgrees(ns, m, a) ==
    \A k \in AllKeys :
        LET p == find(World(ns, m), k)
        IN IF AbsHas(a, k)
           THEN /\ p # nullptr
                /\ ns[p].live
                /\ ns[p].key = k
                /\ ns[p].val = AbsGet(a, k)
           ELSE p = nullptr

----------------------------------------------------------------------------
(* C6 *)

\* C6: when an insert call has returned, the container's size() is at most
\* 0.75 times its bucket count.
C6_LoadFactor ==
    (Valid /\ ret.op = "insert") =>
        maps[ret.c].element_count * LOAD_FACTOR_DEN
            <= maps[ret.c].bucket_count * LOAD_FACTOR_NUM

\* The insert of the 13th entry has returned: the table was doubled once.
C6_Witness ==
    /\ Valid
    /\ ret.op = "insert" /\ ret.flag
    /\ maps[ret.c].element_count = 13
    /\ maps[ret.c].bucket_count = 2 * INITIAL_CAPACITY

----------------------------------------------------------------------------
(* C7 *)

\* C7: an erase(pos) on container c with pos past-the-end (of any container,
\* or default-constructed) or obtained from another container throws
\* invalid_iterator and changes neither the heap nor any container.
C7_EraseRejects ==
    [][\A c \in Maps :
          (Step("erase", c) /\ (it.current = nullptr \/ it.container # c))
          => /\ ret'.exc = "invalid_iterator"
             /\ UNCHANGED <<nodes, maps, exists, abs, it>>]_vars

\* An erase has just thrown for an iterator that references a live entry of
\* the other container.
C7_Witness ==
    /\ ret.op = "erase" /\ ret.exc = "invalid_iterator"
    /\ it.current # nullptr
    /\ it.container = Other(ret.c)
    /\ exists[it.container]
    /\ it.current \in ListNodes(W(it.container))

----------------------------------------------------------------------------
(* C8 *)

\* C8: at(k) and the const operator[] throw index_out_of_bound when k is not
\* in the container (an empty one included), return the stored value when it
\* is, and change neither the heap nor any container.
C8_At ==
    [][\A c \in Maps :
          (Valid /\ (Step("at", c) \/ Step("const_index", c)))
          => /\ IF AbsHas(abs[c], ret'.key)
                THEN ret'.exc = "none" /\ ret'.val = AbsGet(abs[c], ret'.key)
                ELSE ret'.exc = "index_out_of_bound"
             /\ AbsHas(abs[c], ret'.key)
                    <=> (\E i \in 1..Len(Traverse(W(c))) : Traverse(W(c))[i][1] = ret'.key)
             /\ UNCHANGED <<nodes, maps, exists, abs, it>>]_vars

\* A lookup on an empty container has just thrown.
C8_Witness ==
    /\ Valid
    /\ ret.op \in {"at", "const_index"}
    /\ ret.exc = "index_out_of_bound"
    /\ maps[ret.c].element_count = 0
    /\ exists[ret.c]

----------------------------------------------------------------------------
(* C9 *)

HasKey(s, k) == \E i \in 1..Len(s) : s[i][1] = k

ValueOf(s, k) == s[CHOOSE i \in 1..Len(s) : s[i][1] = k][2]

\* C9: the mutable operator[] throws nothing; for a key the container does
\* not hold it appends exactly one entry (key, T()) at the tail, raises
\* size() by one and returns that default value; for a key it holds it
\* returns the stored value and leaves size() and the traversal unchanged.
C9_Index ==
    [][\A c \in Maps :
          (Valid /\ Step("index", c))
          => /\ ret'.exc = "none"
             /\ IF HasKey(Traverse(W(c)), ret'.key)
                THEN /\ ret'.val = ValueOf(Traverse(W(c)), ret'.key)
                     /\ ret'.flag = FALSE
                     /\ maps'[c].element_count = maps[c].element_count
                     /\ Traverse(World(nodes', maps'[c])) = Traverse(W(c))
                ELSE /\ ret'.val = 0
                     /\ ret'.flag = TRUE
                     /\ maps'[c].element_count = maps[c].element_count + 1
                     /\ Traverse(World(nodes', maps'[c]))
                            = Append(Traverse(W(c)), <<ret'.key, 0>>)]_vars

\* operator[] has just created the 13th entry, in a table it doubled.
C9_Witness ==
    /\ Valid
    /\ ret.op = "index" /\ ret.flag
    /\ maps[ret.c].element_count = 13
    /\ maps[ret.c].bucket_count = 2 * INITIAL_CAPACITY
    /\ nodes[maps[ret.c].tail].key = ret.key

----------------------------------------------------------------------------
(* C10 *)

\* The step just taken was an insert, operator[], erase, clear or value
\* update on container c.
Mutates(c) ==
    /\ ops' = ops + 1
    /\ ret'.c = c
    /\ ret'.op \in {"insert", "index", "erase", "clear", "set"}

----------------------------------------------------------------------------
(* C11 *)

PublicOps == {"insert", "index", "erase", "clear", "find", "assign", "swap"}

\* C11 as stated: every insert, operator[], erase, clear, find, assignment
\* and swap leaves the bucket count of each container equal to what it was
\* or exactly twice that, and never zero.
C11_OnlyDoubling ==
    [][(ops' = ops + 1 /\ ret'.op \in PublicOps) =>
          \A c \in Live :
              /\ maps'[c].bucket_count > 0
              /\ \/ maps'[c].bucket_count = maps[c].bucket_count
                 \/ maps'[c].bucket_count = 2 * maps[c].bucket_count]_vars

\* C11, amended: a default-constructed container has 16 buckets; insert and
\* operator[] leave the bucket count of their container equal or exactly
\* doubled; erase, clear, find, at and count leave it equal; an assignment
\* c = o gives c the bucket count of o; swap exchanges the two bucket
\* counts (a swap with itself none); an operation on one container leaves the bucket count of the
\* other alone; and the bucket count of a constructed container is never zero.
C11_CapacitySteps ==
    [][\A c \in Maps :
          /\ exists'[c] => maps'[c].bucket_count > 0
          /\ Step("construct", c) => maps'[c].bucket_count = INITIAL_CAPACITY
          /\ (Step("insert", c) \/ Step("index", c))
             => /\ \/ maps'[c].bucket_count = maps[c].bucket_count
                   \/ maps'[c].bucket_count = 2 * maps[c].bucket_count
                /\ maps'[Other(c)].bucket_count = maps[Other(c)].bucket_count
          /\ (\E op \in {"erase", "clear", "find", "at", "const_index", "count"} : Step(op, c))
             => /\ maps'[c].bucket_count = maps[c].bucket_count
                /\ maps'[Other(c)].bucket_count = maps[Other(c)].bucket_count
          /\ Step("assign", c)
             => /\ maps'[c].bucket_count
                     = IF ret'.flag THEN maps[Other(c)].bucket_count
                                    ELSE maps[c].bucket_count
                /\ maps'[Other(c)].bucket_count = maps[Other(c)].bucket_count
          /\ Step("swap", c)
             => IF ret'.flag
                THEN /\ maps'[c].bucket_count = maps[Other(c)].bucket_count
                     /\ maps'[Other(c)].bucket_count = maps[c].bucket_count
                ELSE /\ maps'[c].bucket_count = maps[c].bucket_count
                     /\ maps'[Other(c)].bucket_count = maps[Other(c)].bucket_count]_vars

\* X grew to 32 buckets, and a swap has just left it with the 16 of Y.
C11_Witness ==
    /\ ret.op = "swap"
    /\ exists["X"] /\ exists["Y"]
    /\ maps["X"].bucket_count = INITIAL_CAPACITY
    /\ maps["Y"].bucket_count = 2 * INITIAL_CAPACITY

----------------------------------------------------------------------------
(* C12 *)

\* C12: with valid iterators, an assignment c = o that returns gives c the
\* traversal (keys and values, in order) of o and leaves o unchanged, a
\* self-assignment changes nothing, and an assignment that throws
\* std::bad_alloc while temp is built leaves every container (entries,
\* order, size, bucket count), the heap and the number of allocated bucket
\* arrays exactly as they were: nothing of temp survives.
C12_Assign ==
    [][\A c \in Maps :
          (Valid /\ Step("assign", c))
          => IF ret'.exc = "bad_alloc"
             THEN /\ nodes' = nodes
                  /\ maps' = maps
                  /\ arrays' = arrays
                  /\ UNCHANGED <<exists, abs>>
             ELSE IF ret'.flag
             THEN /\ Traverse(World(nodes', maps'[c])) = Traverse(W(Other(c)))
                  /\ Traverse(World(nodes', maps'[Other(c)])) = Traverse(W(Other(c)))
                  /\ maps'[Other(c)] = maps[Other(c)]
                  /\ maps'[c].element_count = maps[Other(c)].element_count
                  /\ ListNodes(World(nodes', maps'[c]))
                        \cap ListNodes(World(nodes', maps'[Other(c)])) = {}
                  /\ arrays' = arrays
                  /\ {a \in Addr : nodes'[a].live}
                        = ListNodes(World(nodes', maps'[c]))
                             \cup ListNodes(World(nodes', maps'[Other(c)]))
             ELSE /\ nodes' = nodes
                  /\ maps' = maps
                  /\ arrays' = arrays]_vars

\* An assignment from a four-entry container has just thrown after part
\* of temp was built, and the target still holds its own three entries.
C12_Witness ==
    /\ Valid
    /\ ret.op = "assign" /\ ret.exc = "bad_alloc" /\ ret.flag
    /\ maps[ret.c].element_count = 3
    /\ maps[Other(ret.c)].element_count = 4

----------------------------------------------------------------------------
(* C13 *)

\* The iterator is the begin() of its (constructed) container.
AtBegin(i) ==
    IF i.container \in Live THEN i.current = maps[i.container].head ELSE FALSE

\* The iterator is the end() of its (constructed) container.
AtEnd(i) ==
    IF i.container \in Live THEN i.current = nullptr ELSE FALSE

\* C13: incrementing an end() iterator and decrementing a begin() iterator
\* each throw invalid_iterator.
C13_OutOfRangeThrows ==
    [][(/\ ops' = ops + 1
        /\ ~it.dangling
        /\ \/ ret'.op = "inc" /\ AtEnd(it)
           \/ ret'.op = "dec" /\ AtBegin(it))
       => ret'.exc = "invalid_iterator"]_vars

----------------------------------------------------------------------------
(* C14 *)

Reverse(s) == [i \in 1..Len(s) |-> s[Len(s) + 1 - i]]

\* The entries visited by it = end(); while (it != begin()) { --it; visit },
\* given up after `fuel` steps.
RECURSIVE Backward(_, _, _, _)
Backward(ns, m, i, fuel) ==
    IF i.current = m.head \/ fuel = 0 THEN <<>>
    ELSE IF retreat(ns, i).current = nullptr THEN <<nullptr>>
    ELSE <<retreat(ns, i).current>> \o Backward(ns, m, retreat(ns, i), fuel - 1)

\* C14: with valid iterators, for every entry p of a container (the tail
\* included) ++ followed by -- on an iterator at p gives an iterator at p;
\* -- on end() of a non-empty container gives the tail entry; and the
\* backward traversal from end() visits the entries in reverse insertion order.
C14_RoundTrip ==
    Valid =>
        \A c \in Live :
            /\ \A p \in ListNodes(W(c)) :
                  retreat(nodes, advance(nodes, Iter(p, c))) = Iter(p, c)
            /\ maps[c].head # nullptr
                  => retreat(nodes, Iter(nullptr, c)).current = maps[c].tail
            /\ Backward(nodes, maps[c], Iter(nullptr, c), MaxNodes)
                  = Reverse(ListSeq(nodes, maps[c].head, MaxNodes + 1))

----------------------------------------------------------------------------
(* C15 *)

\* The step just taken was an insert or operator[] on c that rehashed.
Rehashed(c) ==
    /\ Step("insert", c) \/ Step("index", c)
    /\ maps'[c].bucket_count # maps[c].bucket_count

\* Entry p is on the chain of its key in container m.
InOwnChain(ns, m, p) ==
    p \in Range(ChainSeq(ns, m.buckets[hasher(ns[p].key) % m.bucket_count], MaxNodes + 1))

\* C15: with valid iterators, an insert or operator[] that rehashes doubles
\* the bucket count and leaves head and, for every entry the container
\* held, its key, value, list_prev and list_next unchanged (but for the old
\* tail, whose list_next becomes the entry the call appends, if it appends
\* one); the entries held before are all still held, in the same order; the
\* size changes only by the appended entry; every entry is on the chain
\* hash(key) mod the new bucket count; and an iterator held across the call
\* references the same entry.  When the call appends nothing (a refused
\* duplicate) tail and all order links are exactly as before.
C15_RehashFrame ==
    [][\A c \in Maps :
          (Valid /\ Rehashed(c))
          => /\ maps'[c].bucket_count = 2 * maps[c].bucket_count
             /\ maps'[c].head = maps[c].head
             /\ \A p \in ListNodes(W(c)) :
                   /\ nodes'[p].live
                   /\ nodes'[p].key = nodes[p].key
                   /\ nodes'[p].val = nodes[p].val
                   /\ nodes'[p].list_prev = nodes[p].list_prev
                   /\ IF ret'.flag /\ p = maps[c].tail
                      THEN nodes'[p].list_next = maps'[c].tail
                      ELSE nodes'[p].list_next = nodes[p].list_next
             /\ IF ret'.flag
                THEN /\ maps'[c].element_count = maps[c].element_count + 1
                     /\ ListSeq(nodes', maps'[c].head, MaxNodes + 1)
                           = Append(ListSeq(nodes, maps[c].head, MaxNodes + 1), maps'[c].tail)
                     /\ maps'[c].tail \notin ListNodes(W(c))
                ELSE /\ maps'[c].element_count = maps[c].element_count
                     /\ maps'[c].tail = maps[c].tail
                     /\ ListSeq(nodes', maps'[c].head, MaxNodes + 1)
                           = ListSeq(nodes, maps[c].head, MaxNodes + 1)
             /\ \A p \in ListNodes(World(nodes', maps'[c])) :
                   InOwnChain(nodes', maps'[c], p)
             /\ BucketNodes(World(nodes', maps'[c])) = ListNodes(World(nodes', maps'[c]))
             /\ ret'.op = "index" => it' = it]_vars

\* An insert of a key already held has just rehashed a twelve-entry
\* container from 16 to 32 buckets.
C15_Witness ==
    /\ Valid
    /\ ret.op = "insert" /\ ~ret.flag
    /\ maps[ret.c].element_count = 12
    /\ maps[ret.c].bucket_count = 2 * INITIAL_CAPACITY
    /\ ops = 1

----------------------------------------------------------------------------
(* C16 *)

\* size() >= 0.75 * capacity
AtThreshold(m) == m.element_count * LOAD_FACTOR_DEN >= m.bucket_count * LOAD_FACTOR_NUM

\* C16: with valid iterators, an insert of a key the container holds, made
\* while size() >= 0.75 * capacity, is refused and still doubles the bucket
\* count and puts every entry on the chain of its key; find, count, at and
\* the const operator[] change no container, and operator[] on a key the
\* container holds changes none either.
C16_CheckBeforeWalk ==
    [][\A c \in Maps :
          Valid =>
             /\ (Step("insert", c) /\ HasKey(Traverse(W(c)), ret'.key) /\ AtThreshold(maps[c]))
                => /\ ~ret'.flag
                   /\ maps'[c].bucket_count = 2 * maps[c].bucket_count
                   /\ \A p \in ListNodes(World(nodes', maps'[c])) :
                         InOwnChain(nodes', maps'[c], p)
             /\ (\E op \in {"find", "count", "at", "const_index"} : Step(op, c))
                => maps' = maps /\ nodes' = nodes
             /\ (Step("index", c) /\ HasKey(Traverse(W(c)), ret'.key))
                => maps' = maps /\ nodes' = nodes]_vars

\* The refused insert of key 16, offered with another value, has just left
\* its twelve-entry container with 32 buckets and key 16 alone in chain 16.
C16_Witness ==
    /\ Valid
    /\ ret.op = "insert" /\ ~ret.flag /\ ret.key = 16
    /\ AtThreshold([maps[ret.c] EXCEPT !.bucket_count = INITIAL_CAPACITY])
    /\ maps[ret.c].bucket_count = 2 * INITIAL_CAPACITY
    /\ maps[ret.c].buckets[16] = it.current
    /\ nodes[it.current].next = nullptr
    /\ nodes[it.current].val # ret.val

----------------------------------------------------------------------------
(* C17 *)

\* C17 as stated: an insert of a key the container holds changes nothing
\* of the container: bucket array, chains, bucket count, size, order list
\* and values are as before.
C17_DuplicateNoMutation ==
    [][\A c \in Maps :
          (Valid /\ Step("insert", c) /\ HasKey(Traverse(W(c)), ret'.key))
          => maps' = maps /\ nodes' = nodes]_vars

\* C17, amended: with valid iterators, an insert of a key the container
\* holds, made while size() < 0.75 * capacity, changes nothing of the
\* container or the heap; made while size() >= 0.75 * capacity it doubles
\* the bucket count and relinks the chains, and leaves size, head, tail and
\* every entry's key, value, list_next and list_prev as before.
C17_DuplicateMutatesChainsOnly ==
    [][\A c \in Maps :
          (Valid /\ Step("insert", c) /\ HasKey(Traverse(W(c)), ret'.key))
          => IF AtThreshold(maps[c])
             THEN /\ maps'[c] = [maps[c] EXCEPT !.buckets = maps'[c].buckets,
                                                !.bucket_count = 2 * maps[c].bucket_count]
                  /\ maps'[Other(c)] = maps[Other(c)]
                  /\ \A a \in Addr :
                        nodes'[a] = [nodes[a] EXCEPT !.next = nodes'[a].next,
                                                     !.prev = nodes'[a].prev]
             ELSE maps' = maps /\ nodes' = nodes]_vars

\* An insert has just been refused by a three-entry container whose bucket
\* array it left alone.
C17_Witness ==
    /\ Valid
    /\ ret.op = "insert" /\ ~ret.flag
    /\ maps[ret.c].element_count = 3
    /\ maps[ret.c].bucket_count = INITIAL_CAPACITY

----------------------------------------------------------------------------
(* C18 *)

NoRepeat(s) == Cardinality(Range(s)) = Len(s)

\* The chain headed by slot i of container m is a well-formed doubly linked
\* chain of live entries whose keys hash to i.
ChainWellFormed(ns, m, i, ch) ==
    /\ Len(ch) <= MaxNodes
    /\ NoRepeat(ch)
    /\ \A j \in 1..Len(ch) :
          /\ ns[ch[j]].live
          /\ hasher(ns[ch[j]].key) % m.bucket_count = i
          /\ ns[ch[j]].prev = IF j = 1 THEN nullptr ELSE ch[j - 1]

ChainsWellFormed(ns, m) ==
    /\ DOMAIN m.buckets = 0..(m.bucket_count - 1)
    /\ \A i \in DOMAIN m.buckets :
          ChainWellFormed(ns, m, i, ChainSeq(ns, m.buckets[i], MaxNodes + 1))
    /\ \A p \in BucketNodes(World(ns, m)) :
          Cardinality({i \in DOMAIN m.buckets :
                          p \in Range(ChainSeq(ns, m.buckets[i], MaxNodes + 1))}) = 1

\* C18: in every reachable state, every bucket slot of every container is
\* empty or heads a well-formed doubly linked chain: the head has prev =
\* null, e.next = f implies f.prev = e, the chain is acyclic, every entry of
\* chain i has hash(key) mod capacity = i, and no entry is in two chains.
C18_ChainsWellFormed ==
    \A c \in Live : ChainsWellFormed(nodes, maps[c])

\* The same, in the states reached with valid iterators only.
ValidChainsWellFormed == Valid => C18_ChainsWellFormed

----------------------------------------------------------------------------
(* C19 *)

\* The order list of container m is a well-formed doubly linked list of
\* element_count live entries from head to tail.
ListWellFormed(ns, m, ls) ==
    /\ (m.head = nullptr) <=> (m.tail = nullptr)
    /\ (m.head = nullptr) <=> (m.element_count = 0)
    /\ Len(ls) = m.element_count
    /\ NoRepeat(ls)
    /\ \A j \in 1..Len(ls) :
          /\ ns[ls[j]].live
          /\ ns[ls[j]].list_prev = IF j = 1 THEN nullptr ELSE ls[j - 1]
          /\ (j = Len(ls)) <=> (ls[j] = m.tail)
          /\ (j = Len(ls)) <=> (ns[ls[j]].list_next = nullptr)

\* C19: in every reachable state the order list of every container is a
\* well-formed doubly linked list: head = null iff tail = null iff size() =
\* 0; otherwise head.list_prev = null, tail.list_next = null, list_next and
\* list_prev are mutual inverses, and following list_next from head reaches
\* tail after exactly size() entries.
C19_ListWellFormed ==
    \A c \in Live :
        ListWellFormed(nodes, maps[c], ListSeq(nodes, maps[c].head, MaxNodes + 1))

\* The same, in the states reached with valid iterators only.
ValidListWellFormed == Valid => C19_ListWellFormed

----------------------------------------------------------------------------
(* C20 *)

\* Order list = bucket contents and count = size, for container m.
Structural(ns, m) ==
    /\ ListNodes(World(ns, m)) = BucketNodes(World(ns, m))
    /\ Cardinality(ListNodes(World(ns, m))) = m.element_count
    /\ \A p \in ListNodes(World(ns, m)) : ns[p].live

\* C20: an erase on container c with an iterator (not a dangling one) whose
\* entry is not an entry of c but of the other container throws
\* invalid_iterator, removes nothing, and leaves the structural invariants
\* of both containers intact.
C20_EraseOnlyOwnEntries ==
    [][\A c \in Maps :
          (/\ Step("erase", c)
           /\ it.current # nullptr
           /\ ~it.dangling
           /\ exists[Other(c)]
           /\ it.current \in ListNodes(W(Other(c)))
           /\ it.current \notin ListNodes(W(c)))
          => /\ ret'.exc = "invalid_iterator"
             /\ nodes' = nodes
             /\ maps' = maps
             /\ \A o \in Maps : exists'[o] => Structural(nodes', maps'[o])]_vars

====
